---------------------------- MODULE Spec2Model ----------------------------
(***************************************************************************)
(* Model of src/src/base64.rs: the BASE64 codec (encode, decode, the       *)
(* validator and the two alphabet tables).                                 *)
(*                                                                         *)
(* Bytes and symbols are numbers 0..255 (a symbol is its ASCII code), a    *)
(* slice or Vec is a sequence (1-based here, 0-based in the source: the    *)
(* source's x[i] is x[i+1] below, and every index a result reports is the  *)
(* source's 0-based one).                                                  *)
(***************************************************************************)
EXTENDS Integers, Sequences, FiniteSets, TLC

VARIABLES
    BASE64_ENCODE_TABLE,  \* the forward table: sextet 0..63 -> symbol
    BASE64_DECODE_TABLE,  \* the reverse table: byte 0..255 -> sextet or 0xFF
    table_index,  \* `index`, the loop counter of the running table generator
    pc,      \* "generate_encode_table", "generate_decode_table", "start",
             \* "encoded", "decoded_back", "decoded", "encoded_back"
    input,   \* the argument of the first call of the codec
    output,  \* the String the last encode call returned
    result   \* the Result the last decode call returned

tables == <<BASE64_ENCODE_TABLE, BASE64_DECODE_TABLE, table_index>>

vars == <<BASE64_ENCODE_TABLE, BASE64_DECODE_TABLE, table_index,
          pc, input, output, result>>

---------------------------------------------------------------------------
(* Bounds of the model *)

\* longest byte sequence handed to encode
MaxBytes == 4

\* most complete 4-symbol groups in front of the free tail of a text
MaxHeadGroups == 1

\* longest free tail of a text handed to decode
MaxTail == 4

\* the byte values the encoder's inputs are drawn from: they produce the
\* sextets 0, 3, 15, 26, 27, 48, 55, 60, 61, 62, 63 among others
ByteVals == {0, 15, 105, 183, 240, 247, 255}

\* the symbols the decoder's inputs are drawn from:
\*   'I' (sextet 8), 'Q' (sextet 16), '8' (the doubled symbol), '=' (the
\*   padding), '!' and '/' (in neither table)
TextChars == {73, 81, 56, 61, 33, 47}

\* complete groups put in front of the tail: "ABCD", "a!cd", "ab=d"
GroupSamples == { <<65, 66, 67, 68>>, <<97, 33, 99, 100>>, <<97, 98, 61, 100>> }

---------------------------------------------------------------------------
(* Fixed-width arithmetic *)

RECURSIVE Pow2(_)
Pow2(n) == IF n = 0 THEN 1 ELSE 2 * Pow2(n - 1)

\* a & b on unsigned integers
RECURSIVE BitAnd(_, _)
BitAnd(a, b) ==
    IF a = 0 \/ b = 0 THEN 0
    ELSE (a % 2) * (b % 2) + 2 * BitAnd(a \div 2, b \div 2)

\* x << n on u8: the bits shifted out of the 8 are lost
Shl8(x, n) == (x * Pow2(n)) % 256

\* a variant that forgets the shift
Shr8_unshifted(x, n) == x

\* x >> n on u8
Shr8(x, n) == x \div Pow2(n)

\* a + b on u8, as the wrapped sum
Add8(a, b) == (a + b) % 256

\* a + b on u8 overflows: the build with overflow checks aborts there, the
\* build without them goes on with the wrapped sum
Add8Overflows(a, b) == a + b > 255

\* u32::from_be_bytes([b1, b2, b3, b4]), kept as its four bytes
from_be_bytes(b1, b2, b3, b4) == <<b1, b2, b3, b4>>

\* bit32 >> n for a u32 kept as four bytes and 8 <= n < 32: the low byte is
\* shifted out whole, the rest is the 24-bit number of the upper three bytes
Shr32(bit32, n) ==
    (bit32[1] * 65536 + bit32[2] * 256 + bit32[3]) \div Pow2(n - 8)

---------------------------------------------------------------------------
(* Constants and the construction of the alphabet tables *)

PADDING == 61

INVALID_VALUE == 255

LOW_6_BITS == 63

\* The string literal given to generate_encode_table_from, as ASCII codes:
\* "ABCDEFGHIJKLMNOPQRSTUVWXYZ" "abcdefghijklmnopqrstuvwxyz" "01234567889+/"
\* (65 characters)
ALPHABET ==
    [i \in 1..26 |-> 64 + i] \o [i \in 1..26 |-> 96 + i]
        \o <<48, 49, 50, 51, 52, 53, 54, 55, 56, 56, 57, 43, 47>>

\* a variant that reads the string one position too far to the right
encode_table_store_shifted(symbols, encode_table, i) ==
    [encode_table EXCEPT ![i] = symbols[i + 2]]

\* encode_table[index] = symbols[index]
encode_table_store(symbols, encode_table, i) ==
    [encode_table EXCEPT ![i] = symbols[i + 1]]

\* decode_table[encode_table[index] as usize] = index as u8
decode_table_store(encode_table, decode_table, i) ==
    [decode_table EXCEPT ![encode_table[i]] = i]

---------------------------------------------------------------------------
(* Encoder *)

into_4_bit6(byte1, byte2, byte3) ==
    LET bit32 == from_be_bytes(byte1, byte2, byte3, 0)
    IN  << BitAnd(Shr32(bit32, 26), LOW_6_BITS),
           BitAnd(Shr32(bit32, 20), LOW_6_BITS),
           BitAnd(Shr32(bit32, 14), LOW_6_BITS),
           BitAnd(Shr32(bit32, 8), LOW_6_BITS) >>

into_3_bit6(byte1, byte2) ==
    LET bit32 == from_be_bytes(byte1, byte2, 0, 0)
    IN  << BitAnd(Shr32(bit32, 26), LOW_6_BITS),
           BitAnd(Shr32(bit32, 20), LOW_6_BITS),
           BitAnd(Shr32(bit32, 14), LOW_6_BITS) >>

into_2_bit6(byte) ==
    LET bit32 == from_be_bytes(byte, 0, 0, 0)
    IN  << BitAnd(Shr32(bit32, 26), LOW_6_BITS),
           BitAnd(Shr32(bit32, 20), LOW_6_BITS) >>

\* the loop of into_bit6s: `rest` is what is left of the input, `bit6s` the
\* vector built so far
RECURSIVE into_bit6s_loop(_, _)
into_bit6s_loop(rest, bit6s) ==
    CASE Len(rest) = 0 -> bit6s
      [] Len(rest) = 1 -> bit6s \o into_2_bit6(rest[1])
      [] Len(rest) = 2 -> bit6s \o into_3_bit6(rest[1], rest[2])
      [] OTHER ->
            into_bit6s_loop(SubSeq(rest, 4, Len(rest)),
                            bit6s \o into_4_bit6(rest[1], rest[2], rest[3]))

into_bit6s(bytes) == into_bit6s_loop(bytes, <<>>)

\* while symbols.len() % 4 != 0 { symbols.push(PADDING) }
RECURSIVE push_padding(_)
push_padding(symbols) ==
    IF Len(symbols) % 4 # 0
    THEN push_padding(Append(symbols, PADDING))
    ELSE symbols

\* a variant that never pads
encode_unpadded(bytes) ==
    LET bit6s == into_bit6s(bytes)
    IN  [i \in 1..Len(bit6s) |-> BASE64_ENCODE_TABLE[bit6s[i]]]

encode(bytes) ==
    LET bit6s == into_bit6s(bytes)
        symbols == [i \in 1..Len(bit6s) |-> BASE64_ENCODE_TABLE[bit6s[i]]]
    IN  push_padding(symbols)

---------------------------------------------------------------------------
(* Decoder *)

\* Result<Vec<u8>, DecodeError>, and the abort of a panic
Ok(bytes) == [kind |-> "Ok", bytes |-> bytes]

InvalidLength == [kind |-> "InvalidLength"]

InvalidByte(index, byte) ==
    [kind |-> "InvalidByte", index |-> index, byte |-> byte]

InvalidLastSymbol(index, byte) ==
    [kind |-> "InvalidLastSymbol", index |-> index, byte |-> byte]

Panic == [kind |-> "Panic"]

\* input[input.len()-1] and input[input.len()-2] of count_padding are out
\* of range (the subtraction underflows, or the index is past the end) when
\* the input has fewer than 2 elements: the call aborts
count_padding_panics(symbols) == Len(symbols) < 2

\* called with at least 2 elements (fewer: the index is out of range)
count_padding(symbols) ==
    LET last == symbols[Len(symbols)]
        last2 == symbols[Len(symbols) - 1]
    IN  IF last = PADDING /\ last2 = PADDING THEN 2
        ELSE IF last = PADDING THEN 1
        ELSE 0

\* a variant with the two masks exchanged
trailing_mask_swapped(padding) ==
    CASE padding = 2 -> 3
      [] padding = 1 -> 15
      [] OTHER -> 0

\* the mask of the bits that must be zero in the last symbol
trailing_mask(padding) ==
    CASE padding = 2 -> 15
      [] padding = 1 -> 3
      [] OTHER -> 0

\* a variant that checks nothing of the last symbol
trailing_bits_unchecked(symbols, padding) == FALSE

\* BASE64_DECODE_TABLE[last_non_pad_elem] & mask != 0
trailing_bits_dirty(symbols, padding) ==
    LET last_non_pad_elem == symbols[Len(symbols) - padding]
    IN  BitAnd(BASE64_DECODE_TABLE[last_non_pad_elem],
               trailing_mask(padding)) # 0

\* the 0-based indices, before the padding, of the bytes the decode table
\* marks invalid
invalid_indices(symbols, padding) ==
    { index \in 0..(Len(symbols) - padding - 1) :
        BASE64_DECODE_TABLE[symbols[index + 1]] = INVALID_VALUE }

Minimum(S) == CHOOSE x \in S : \A y \in S : x <= y

Maximum(S) == CHOOSE x \in S : \A y \in S : x >= y

\* a variant that reports the last invalid byte
first_invalid_last(symbols, padding) ==
    Maximum(invalid_indices(symbols, padding))

\* .filter(..).nth(0): the first of them
first_invalid(symbols, padding) ==
    Minimum(invalid_indices(symbols, padding))

\* a variant that looks at the symbols before it looks at the length
validate_decoding_target_symbols_first(symbols) ==
    IF Len(symbols) = 0 THEN Ok(<<>>)
    ELSE IF Len(symbols) < 2 THEN InvalidLength
    ELSE
        LET padding == count_padding(symbols)
        IN  IF invalid_indices(symbols, padding) # {}
            THEN LET index == first_invalid(symbols, padding)
                 IN  InvalidByte(index, symbols[index + 1])
            ELSE IF Len(symbols) % 4 # 0 THEN InvalidLength
            ELSE IF trailing_bits_dirty(symbols, padding)
            THEN InvalidLastSymbol(Len(symbols) - padding - 1,
                                   symbols[Len(symbols) - padding])
            ELSE Ok(<<>>)

\* input.len() - padding - 1 underflows, and input[last_non_pad_index] is
\* out of range, when the input is all padding: the call aborts
last_non_pad_index_panics(symbols, padding) ==
    Len(symbols) - padding - 1 < 0

\* a variant without the check of the length
validate_decoding_target_any_length(symbols) ==
    IF Len(symbols) = 0 THEN Ok(<<>>)
    ELSE IF count_padding_panics(symbols) THEN Panic
    ELSE
        LET padding == count_padding(symbols)
        IN  IF invalid_indices(symbols, padding) # {}
            THEN LET index == first_invalid(symbols, padding)
                 IN  InvalidByte(index, symbols[index + 1])
            ELSE IF last_non_pad_index_panics(symbols, padding) THEN Panic
            ELSE IF trailing_bits_dirty(symbols, padding)
            THEN InvalidLastSymbol(Len(symbols) - padding - 1,
                                   symbols[Len(symbols) - padding])
            ELSE Ok(<<>>)

\* Ok(<<>>) stands for Ok(()), Panic for an abort inside the call
validate_decoding_target(symbols) ==
    IF Len(symbols) = 0 THEN Ok(<<>>)
    ELSE IF Len(symbols) % 4 # 0 THEN InvalidLength
    ELSE IF count_padding_panics(symbols) THEN Panic
    ELSE
        LET padding == count_padding(symbols)
        IN  IF invalid_indices(symbols, padding) # {}
            THEN LET index == first_invalid(symbols, padding)
                 IN  InvalidByte(index, symbols[index + 1])
            ELSE IF last_non_pad_index_panics(symbols, padding) THEN Panic
            ELSE IF trailing_bits_dirty(symbols, padding)
            THEN InvalidLastSymbol(Len(symbols) - padding - 1,
                                   symbols[Len(symbols) - padding])
            ELSE Ok(<<>>)

into_3_byte(bit6_1, bit6_2, bit6_3, bit6_4) ==
    << Add8(Shl8(bit6_1, 2), Shr8(bit6_2, 4)),
       Add8(Shl8(bit6_2, 4), Shr8(bit6_3, 2)),
       Add8(Shl8(bit6_3, 6), Shr8(bit6_4, 0)) >>

\* a variant that forgets the second byte
into_2_byte_short(bit6_1, bit6_2, bit6_3) ==
    << Add8(Shl8(bit6_1, 2), Shr8(bit6_2, 4)) >>

into_2_byte(bit6_1, bit6_2, bit6_3) ==
    << Add8(Shl8(bit6_1, 2), Shr8(bit6_2, 4)),
       Add8(Shl8(bit6_2, 4), Shr8(bit6_3, 2)) >>

into_1_byte(bit6_1, bit6_2) ==
    << Add8(Shl8(bit6_1, 2), Shr8(bit6_2, 4)) >>

\* some addition of into_3_byte overflows
into_3_byte_overflows(bit6_1, bit6_2, bit6_3, bit6_4) ==
    \/ Add8Overflows(Shl8(bit6_1, 2), Shr8(bit6_2, 4))
    \/ Add8Overflows(Shl8(bit6_2, 4), Shr8(bit6_3, 2))
    \/ Add8Overflows(Shl8(bit6_3, 6), Shr8(bit6_4, 0))

\* some addition of into_2_byte overflows
into_2_byte_overflows(bit6_1, bit6_2, bit6_3) ==
    \/ Add8Overflows(Shl8(bit6_1, 2), Shr8(bit6_2, 4))
    \/ Add8Overflows(Shl8(bit6_2, 4), Shr8(bit6_3, 2))

\* the addition of into_1_byte overflows
into_1_byte_overflows(bit6_1, bit6_2) ==
    Add8Overflows(Shl8(bit6_1, 2), Shr8(bit6_2, 4))

\* the argument tuples the loop of into_bytes hands to into_1_byte,
\* into_2_byte and into_3_byte, in the order of the calls
RECURSIVE into_bytes_calls(_)
into_bytes_calls(rest) ==
    CASE Len(rest) = 0 -> <<>>
      [] Len(rest) = 2 -> << <<rest[1], rest[2]>> >>
      [] Len(rest) = 3 -> << <<rest[1], rest[2], rest[3]>> >>
      [] OTHER ->
            << <<rest[1], rest[2], rest[3], rest[4]>> >>
                \o into_bytes_calls(SubSeq(rest, 5, Len(rest)))

\* the helper into_bytes calls for a tuple of 2, 3 or 4 sextets
into_n_byte(call) ==
    CASE Len(call) = 2 -> into_1_byte(call[1], call[2])
      [] Len(call) = 3 -> into_2_byte(call[1], call[2], call[3])
      [] OTHER -> into_3_byte(call[1], call[2], call[3], call[4])

into_n_byte_overflows(call) ==
    CASE Len(call) = 2 -> into_1_byte_overflows(call[1], call[2])
      [] Len(call) = 3 -> into_2_byte_overflows(call[1], call[2], call[3])
      [] OTHER ->
            into_3_byte_overflows(call[1], call[2], call[3], call[4])

\* some addition overflows while into_bytes runs on bit6s
into_bytes_overflows(bit6s) ==
    \E k \in 1..Len(into_bytes_calls(bit6s)) :
        into_n_byte_overflows(into_bytes_calls(bit6s)[k])

\* the loop of into_bytes; it is entered with Len(bit6s) % 4 # 1
RECURSIVE into_bytes_loop(_, _)
into_bytes_loop(rest, bytes) ==
    CASE Len(rest) = 0 -> bytes
      [] Len(rest) = 2 -> bytes \o into_1_byte(rest[1], rest[2])
      [] Len(rest) = 3 -> bytes \o into_2_byte(rest[1], rest[2], rest[3])
      [] OTHER ->
            into_bytes_loop(
                SubSeq(rest, 5, Len(rest)),
                bytes \o into_3_byte(rest[1], rest[2], rest[3], rest[4]))

\* the panic of into_bytes
into_bytes_panics(bit6s) == Len(bit6s) % 4 = 1

into_bytes(bit6s) == into_bytes_loop(bit6s, <<>>)

decode(symbols) ==
    IF Len(symbols) = 0 THEN Ok(<<>>)
    ELSE
        LET e == validate_decoding_target(symbols)
        IN  IF e.kind # "Ok" THEN e
            ELSE
                LET padding == count_padding(symbols)
                    bit6s == [i \in 1..(Len(symbols) - padding) |->
                                 BASE64_DECODE_TABLE[symbols[i]]]
                IN  IF into_bytes_panics(bit6s) THEN Panic
                    ELSE Ok(into_bytes(bit6s))

\* the sextets decode hands to into_bytes, for a non-empty input that
\* passed validate_decoding_target
decode_bit6s(symbols) ==
    LET padding == count_padding(symbols)
    IN  [i \in 1..(Len(symbols) - padding) |->
            BASE64_DECODE_TABLE[symbols[i]]]

\* decode reaches into_bytes, gets past its panic, and an addition of the
\* repacking overflows
decode_overflows(symbols) ==
    /\ Len(symbols) > 0
    /\ validate_decoding_target(symbols).kind = "Ok"
    /\ ~into_bytes_panics(decode_bit6s(symbols))
    /\ into_bytes_overflows(decode_bit6s(symbols))

\* what a call of decode can end in: its result, and where an addition
\* overflows also the abort of the build that checks overflows
decode_outcomes(symbols) ==
    {decode(symbols)} \cup (IF decode_overflows(symbols) THEN {Panic} ELSE {})

---------------------------------------------------------------------------
(* The inputs and the calls *)

RECURSIVE SeqsUpTo(_, _)
SeqsUpTo(S, n) ==
    IF n = 0 THEN { <<>> }
    ELSE LET shorter == SeqsUpTo(S, n - 1)
         IN  shorter \cup { Append(s, x) : s \in shorter, x \in S }

ByteSeqs == SeqsUpTo(ByteVals, MaxBytes)

Heads == SeqsUpTo(GroupSamples, MaxHeadGroups)

RECURSIVE Flatten(_)
Flatten(groups) ==
    IF groups = <<>> THEN <<>> ELSE Head(groups) \o Flatten(Tail(groups))

Texts == { Flatten(h) \o t : h \in Heads, t \in SeqsUpTo(TextChars, MaxTail) }

\* byte values at the ends of the range and around the padding:
\* 0, 255 (the value of the invalid mark), '=' and 'Q'
EdgeBytes == {0, 255, 61, 81}

\* inputs of every length up to MaxTail over the edge bytes
EdgeTexts == SeqsUpTo(EdgeBytes, MaxTail)

\* the characters of the alphabet literal
AlphabetChars == { ALPHABET[i] : i \in 1..Len(ALPHABET) }

\* one-group texts "xyxy", "xyx=" and "xy==" for all characters x, y of the
\* alphabet literal: every pair of sextets the reverse table can give
\* stands at every pair of neighbouring positions of a group
PairTexts ==
    { <<x, y, x, y>> : x \in AlphabetChars, y \in AlphabetChars }
        \cup { <<x, y, x, PADDING>> : x \in AlphabetChars, y \in AlphabetChars }
        \cup { <<x, y, PADDING, PADDING>> :
                   x \in AlphabetChars, y \in AlphabetChars }

DecodeInputs == Texts \cup EdgeTexts \cup PairTexts

None == [kind |-> "None"]

\* generate_encode_table_from has been entered: encode_table is [0; 64]
\* and the loop counter is 0; decode_table will start as [INVALID_VALUE; 256]
Init ==
    /\ BASE64_ENCODE_TABLE = [v \in 0..63 |-> 0]
    /\ BASE64_DECODE_TABLE = [b \in 0..255 |-> INVALID_VALUE]
    /\ table_index = 0
    /\ pc = "generate_encode_table"
    /\ input = <<>>
    /\ output = <<>>
    /\ result = None

\* one turn of the while loop of generate_encode_table_from
generate_encode_table_step ==
    /\ pc = "generate_encode_table"
    /\ table_index < 64
    /\ BASE64_ENCODE_TABLE' =
           encode_table_store(ALPHABET, BASE64_ENCODE_TABLE, table_index)
    /\ table_index' = table_index + 1
    /\ UNCHANGED <<BASE64_DECODE_TABLE, pc, input, output, result>>

\* generate_encode_table_from returns and generate_decode_table_from is
\* entered
generate_encode_table_return ==
    /\ pc = "generate_encode_table"
    /\ ~(table_index < 64)
    /\ table_index' = 0
    /\ pc' = "generate_decode_table"
    /\ UNCHANGED <<BASE64_ENCODE_TABLE, BASE64_DECODE_TABLE,
                   input, output, result>>

\* one turn of the while loop of generate_decode_table_from
generate_decode_table_step ==
    /\ pc = "generate_decode_table"
    /\ table_index < 64
    /\ BASE64_DECODE_TABLE' =
           decode_table_store(BASE64_ENCODE_TABLE, BASE64_DECODE_TABLE, table_index)
    /\ table_index' = table_index + 1
    /\ UNCHANGED <<BASE64_ENCODE_TABLE, pc, input, output, result>>

\* generate_decode_table_from returns: both tables are built
generate_decode_table_return ==
    /\ pc = "generate_decode_table"
    /\ ~(table_index < 64)
    /\ pc' = "start"
    /\ UNCHANGED <<tables, input, output, result>>

\* encode(input) for some byte sequence
Encode ==
    /\ pc = "start"
    /\ \E bytes \in ByteSeqs :
           /\ input' = bytes
           /\ output' = encode(bytes)
    /\ pc' = "encoded"
    /\ UNCHANGED <<tables, result>>

\* decode(encoded), as test_inverse_property_encoding_to_decoding does
DecodeEncoded ==
    /\ pc = "encoded"
    /\ result' \in decode_outcomes(output)
    /\ pc' = "decoded_back"
    /\ UNCHANGED <<tables, input, output>>

\* decode(input) for some text
Decode ==
    /\ pc = "start"
    /\ \E symbols \in DecodeInputs :
           /\ input' = symbols
           /\ result' \in decode_outcomes(symbols)
    /\ pc' = "decoded"
    /\ UNCHANGED <<tables, output>>

\* encode(decoded.unwrap()), as test_inverse_property_decoding_to_encoding
\* does
EncodeDecoded ==
    /\ pc = "decoded"
    /\ result.kind = "Ok"
    /\ output' = encode(result.bytes)
    /\ pc' = "encoded_back"
    /\ UNCHANGED <<tables, input, result>>

Next ==
    \/ generate_encode_table_step
    \/ generate_encode_table_return
    \/ generate_decode_table_step
    \/ generate_decode_table_return
    \/ Encode
    \/ DecodeEncoded
    \/ Decode
    \/ EncodeDecoded

Spec == Init /\ [][Next]_vars

TypeOK ==
    /\ BASE64_ENCODE_TABLE \in [0..63 -> 0..255]
    /\ BASE64_DECODE_TABLE \in [0..255 -> 0..255]
    /\ table_index \in 0..64
    /\ pc \in {"generate_encode_table", "generate_decode_table", "start",
              "encoded", "decoded_back", "decoded", "encoded_back"}
    /\ \A i \in 1..Len(input) : input[i] \in 0..255
    /\ \A i \in 1..Len(output) : output[i] \in 0..255
    /\ result.kind \in {"None", "Ok", "InvalidLength", "InvalidByte",
                        "InvalidLastSymbol", "Panic"}

---------------------------------------------------------------------------
(* Notions the properties are stated in *)

\* the padding count of a text as the properties define it: 2 if the last
\* two symbols are both '=', 1 if only the last is '=', 0 otherwise
PaddingOf(t) ==
    IF Len(t) >= 2 /\ t[Len(t)] = 61 /\ t[Len(t) - 1] = 61 THEN 2
    ELSE IF Len(t) >= 1 /\ t[Len(t)] = 61 THEN 1
    ELSE 0

\* the symbols of the forward table
AlphabetSymbols == { BASE64_ENCODE_TABLE[v] : v \in 0..63 }

\* the 0-based positions before the trailing padding region of t that hold
\* no alphabet symbol
OffendingPositions(t) ==
    { i \in 0..(Len(t) - PaddingOf(t) - 1) : t[i + 1] \notin AlphabetSymbols }

\* t passes the length check and the alphabet check
WellFormedSymbols(t) ==
    /\ Len(t) > 0
    /\ Len(t) % 4 = 0
    /\ OffendingPositions(t) = {}

\* the standard BASE64 alphabet: A-Z a-z 0-9 + /
StdAlphabet ==
    [i \in 1..26 |-> 64 + i] \o [i \in 1..26 |-> 96 + i]
        \o [i \in 1..10 |-> 47 + i] \o <<43, 47>>

\* bit k (0-based, most significant first) of the byte sequence b followed
\* by zeros
StdBit(b, k) ==
    IF k < 8 * Len(b)
    THEN (b[(k \div 8) + 1] \div Pow2(7 - (k % 8))) % 2
    ELSE 0

\* sextet j (0-based) of b
StdSextet(b, j) ==
    32 * StdBit(b, 6 * j) + 16 * StdBit(b, 6 * j + 1)
        + 8 * StdBit(b, 6 * j + 2) + 4 * StdBit(b, 6 * j + 3)
        + 2 * StdBit(b, 6 * j + 4) + StdBit(b, 6 * j + 5)

\* the standard BASE64 encoding of b
StdEncode(b) ==
    LET nsext == (8 * Len(b) + 5) \div 6
        total == ((Len(b) + 2) \div 3) * 4
    IN  [i \in 1..total |->
            IF i <= nsext THEN StdAlphabet[StdSextet(b, i - 1) + 1] ELSE 61]

---------------------------------------------------------------------------
(* Properties *)

\* C1: for every byte sequence b, decode(encode(b)) returns Ok(b).
C1_RoundTripBytes ==
    pc = "decoded_back" => result = Ok(input)

\* C2: for every text t that decode accepts, encode(decode(t)) equals t.
C2_RoundTripText ==
    pc = "encoded_back" => output = input

\* C2 witness: an accepted two-group text with one padding symbol and the
\* doubled symbol '8' in it has been decoded and encoded again.
C2_Witness ==
    /\ pc = "encoded_back"
    /\ Len(input) = 8
    /\ input[8] = 61
    /\ input[7] # 61
    /\ \E i \in 1..7 : input[i] = 56

\* C3: encode(b) has length ceil(n/3)*4 and holds exactly 0, 2 or 1 '=' for
\* n mod 3 = 0, 1 or 2, all of them at the very end and none elsewhere.
C3_EncodeLengthAndPadding ==
    pc = "encoded" =>
        LET n == Len(input)
            p == CASE n % 3 = 0 -> 0
                   [] n % 3 = 1 -> 2
                   [] OTHER -> 1
        IN  /\ Len(output) = ((n + 2) \div 3) * 4
            /\ (n = 0 => output = <<>>)
            /\ \A i \in 1..Len(output) :
                   (output[i] = 61) <=> (i > Len(output) - p)

\* C3 witness: a 4-byte input has been encoded to 8 symbols ending in "==".
C3_Witness ==
    /\ pc = "encoded"
    /\ Len(input) = 4
    /\ Len(output) = 8
    /\ output[7] = 61
    /\ output[8] = 61
    /\ output[6] # 61

\* C4: decode(t) returns InvalidLength exactly when t is non-empty and its
\* length is no multiple of 4, whatever t contains, and decode("") is Ok([]).
C4_InvalidLengthIff ==
    pc = "decoded" =>
        /\ (result = InvalidLength) <=> (Len(input) > 0 /\ Len(input) % 4 # 0)
        /\ (Len(input) = 0 => result = Ok(<<>>))

\* C4 witness: a text of a length that is no multiple of 4, with a
\* non-alphabet byte and a misplaced '=', was answered InvalidLength.
C4_Witness ==
    /\ pc = "decoded"
    /\ Len(input) % 4 # 0
    /\ \E i \in 1..Len(input) : input[i] = 33
    /\ \E i \in 1..(Len(input) - 2) : input[i] = 61
    /\ result = InvalidLength

\* C5: for a non-empty t of a length that is a multiple of 4, decode returns
\* InvalidByte(i, t[i]) for the smallest position i before the trailing
\* padding region that holds no symbol of the forward table ('=' included),
\* ahead of InvalidLastSymbol, and never returns InvalidByte when there is
\* none.
C5_InvalidByteFirstOffender ==
    (pc = "decoded" /\ Len(input) > 0 /\ Len(input) % 4 = 0) =>
        IF OffendingPositions(input) # {}
        THEN LET i == Minimum(OffendingPositions(input))
             IN  result = InvalidByte(i, input[i + 1])
        ELSE result.kind # "InvalidByte"

\* C5 witness: a text with two offending positions, the first one a '=' and
\* not at position 0, and a last symbol with dirty trailing bits, was
\* answered InvalidByte.
C5_Witness ==
    /\ pc = "decoded"
    /\ Len(input) = 8
    /\ Cardinality(OffendingPositions(input)) >= 2
    /\ Minimum(OffendingPositions(input)) > 0
    /\ input[Minimum(OffendingPositions(input)) + 1] = 61
    /\ input[8] = 61
    /\ input[7] = 56
    /\ result.kind = "InvalidByte"

\* C6: for a t that passes the length and alphabet checks, with padding
\* count p and last non-padding index k, decode returns
\* InvalidLastSymbol(k, t[k]) exactly when p = 2 and the low 4 bits of the
\* sextet of t[k] are not all zero, or p = 1 and its low 2 bits are not all
\* zero; otherwise it returns Ok.
C6_InvalidLastSymbolIff ==
    (pc = "decoded" /\ WellFormedSymbols(input)) =>
        LET p == PaddingOf(input)
            k == Len(input) - p - 1
            sextet == BASE64_DECODE_TABLE[input[k + 1]]
            dirty == \/ p = 2 /\ sextet % 16 # 0
                     \/ p = 1 /\ sextet % 4 # 0
        IN  IF dirty
            THEN result = InvalidLastSymbol(k, input[k + 1])
            ELSE result.kind = "Ok"

\* C6 witness: a text ending in one '=' whose last symbol has clean low 2
\* bits and dirty low 4 bits was accepted.
C6_Witness ==
    /\ pc = "decoded"
    /\ WellFormedSymbols(input)
    /\ PaddingOf(input) = 1
    /\ BASE64_DECODE_TABLE[input[Len(input) - 1]] % 16 # 0
    /\ result.kind = "Ok"

\* C7: whenever decode(t) returns Ok(bytes), the number of bytes is
\* floor(len(t)/4)*3 - p, p the padding count of t.
C7_DecodedLength ==
    (pc = "decoded" /\ result.kind = "Ok") =>
        Len(result.bytes) = (Len(input) \div 4) * 3 - PaddingOf(input)

\* C7 witness: an 8-symbol text with one padding symbol decoded to 5 bytes.
C7_Witness ==
    /\ pc = "decoded"
    /\ result.kind = "Ok"
    /\ Len(input) = 8
    /\ PaddingOf(input) = 1
    /\ Len(result.bytes) = 5

\* C8: for every byte sequence b, encode(b) equals the standard BASE64
\* encoding of b.
C8_EncodeIsStandard ==
    pc = "encoded" => output = StdEncode(input)

\* C9: the forward table maps the 64 sextets to 64 pairwise distinct
\* symbols, the reverse table maps forward[v] back to v, and the reverse
\* table holds 0xFF for every other byte value, '=' included.
C9_TablesMutuallyInverse ==
    pc = "start" =>
        /\ \A v, w \in 0..63 :
               BASE64_ENCODE_TABLE[v] = BASE64_ENCODE_TABLE[w] => v = w
        /\ \A v \in 0..63 : BASE64_DECODE_TABLE[BASE64_ENCODE_TABLE[v]] = v
        /\ \A b \in 0..255 :
               b \notin AlphabetSymbols => BASE64_DECODE_TABLE[b] = 255
        /\ BASE64_DECODE_TABLE[61] = 255

\* C10 as stated: the doubled '8' sits at sextets 54 and 55, the only two
\* sextets that share a symbol.
C10_DuplicateAt54And55 ==
    pc = "start" =>
        /\ BASE64_ENCODE_TABLE[54] = 56
        /\ BASE64_ENCODE_TABLE[55] = 56
        /\ \A v, w \in 0..63 :
               (v # w /\ BASE64_ENCODE_TABLE[v] = BASE64_ENCODE_TABLE[w])
                   => (v \in {54, 55} /\ w \in {54, 55})

\* C10 amended: the doubled '8' sits at sextets 60 and 61, the only two
\* sextets that share a symbol.
C10_DuplicateAt60And61 ==
    pc = "start" =>
        /\ BASE64_ENCODE_TABLE[60] = 56
        /\ BASE64_ENCODE_TABLE[61] = 56
        /\ \A v, w \in 0..63 :
               (v # w /\ BASE64_ENCODE_TABLE[v] = BASE64_ENCODE_TABLE[w])
                   => (v \in {60, 61} /\ w \in {60, 61})

\* C10 witness: an input whose first sextet is 60 and whose fifth is 61 was
\* encoded, and both came out as '8'.
C10_Witness ==
    /\ pc = "encoded"
    /\ Len(input) = 4
    /\ into_bit6s(input)[1] = 60
    /\ into_bit6s(input)[5] = 61
    /\ output[1] = 56
    /\ output[5] = 56

\* the text the last call of decode was given
DecodedText == IF pc = "decoded_back" THEN output ELSE input

\* a | b on unsigned integers
RECURSIVE BitOr(_, _)
BitOr(a, b) ==
    IF a = 0 THEN b
    ELSE IF b = 0 THEN a
    ELSE (IF a % 2 = 1 \/ b % 2 = 1 THEN 1 ELSE 0)
             + 2 * BitOr(a \div 2, b \div 2)

\* the bytes of a tuple of 2, 3 or 4 sextets by the bitwise-OR formulas,
\* taken modulo 256
OrRepack(call) ==
    LET byte1 == BitOr(call[1] * 4, call[2] \div 16) % 256
        byte2 == BitOr(call[2] * 16, call[3] \div 4) % 256
        byte3 == BitOr(call[3] * 64, call[4]) % 256
    IN  CASE Len(call) = 2 -> <<byte1>>
          [] Len(call) = 3 -> <<byte1, byte2>>
          [] OTHER -> <<byte1, byte2, byte3>>

\* C11: for every input, decode returns Ok or one of the three DecodeError
\* values and never aborts: not in the panic branch of into_bytes, not in
\* count_padding on an input shorter than 2 bytes, not on an index out of
\* range.
C11_DecodeNeverAborts ==
    pc \in {"decoded", "decoded_back"} =>
        result.kind \in {"Ok", "InvalidLength", "InvalidByte",
                         "InvalidLastSymbol"}

\* C11 witness: a 4-symbol text with two padding symbols was decoded, so
\* into_bytes ran on 2 sextets, and returned Ok.
C11_Witness ==
    /\ pc = "decoded"
    /\ Len(input) = 4
    /\ PaddingOf(input) = 2
    /\ result.kind = "Ok"
    /\ Len(decode_bit6s(input)) % 4 = 2
    /\ Len(result.bytes) = 1

\* C12: every sextet tuple decode passes to the repacking helpers holds
\* values in 0..63, none of the 8-bit additions overflows 255, and the bytes
\* equal the bitwise-OR formulas taken modulo 256.
C12_RepackAddsWithoutCarry ==
    (pc \in {"decoded", "decoded_back"} /\ result.kind = "Ok"
        /\ Len(DecodedText) > 0) =>
        LET calls == into_bytes_calls(decode_bit6s(DecodedText))
        IN  \A k \in 1..Len(calls) :
                /\ \A i \in 1..Len(calls[k]) : calls[k][i] \in 0..63
                /\ ~into_n_byte_overflows(calls[k])
                /\ into_n_byte(calls[k]) = OrRepack(calls[k])

\* C12 witness: the text "++++" was decoded: into_3_byte was called with
\* four sextets 63 and gave three bytes 255.
C12_Witness ==
    /\ pc = "decoded"
    /\ result.kind = "Ok"
    /\ Len(input) = 4
    /\ into_bytes_calls(decode_bit6s(input)) = << <<63, 63, 63, 63>> >>
    /\ result.bytes = <<255, 255, 255>>

=============================================================================
